---- MODULE Spec2Model ----
(***************************************************************************)
(* route53Update (main.go): a run-once dynamic-DNS updater.  main resolves *)
(* the caller's public IP, locates the hosted zone named exactly like the  *)
(* domain, reads the first value of the domain's A record and, when it     *)
(* differs from the public IP, upserts the A record.                       *)
(*                                                                         *)
(* Names are sequences of string pieces (<<"ex", ".">> is "ex."), so that  *)
(* appending the trailing period, exact equality, prefixes and suffixes    *)
(* are what they are for Go strings.                                       *)
(***************************************************************************)
EXTENDS Integers, Sequences, FiniteSets, TLC

VARIABLES
    zones,         \* provider: the hosted-zone listing, a sequence of [Name, Id]
    rrsets,        \* provider: zone id -> listing of resource record sets
    nextChange,    \* provider: the id the next accepted change batch gets
    pc,            \* the step main is about to execute, or how it ended
    domain,        \* main: os.Args[1] + "."
    ip,            \* main: the public IP resolved in this run
    zone,          \* main: the hosted zone GetHostedZone returned
    configuredIp,  \* main: the value GetARecIp returned
    exit,          \* process exit status; Running while the process lives
    calls,         \* external calls made in this run, per kind
    params,        \* the ChangeResourceRecordSetsInput sent in this run
    out,           \* lines printed / logged in this run
    trace,         \* steps executed in this run, in order
    runs,          \* process invocations so far
    atStart,       \* rrsets and nextChange as they were when this run started
    reported,      \* the change id printed by "Updated. Change: ..."; 0 if none
    prev,          \* summary of the previous run
    ret            \* result of a direct call of one of the three functions

vars == <<zones, rrsets, nextChange, pc, domain, ip, zone, configuredIp, exit,
          calls, params, out, trace, runs, atStart, reported, prev, ret>>

provider == <<zones, rrsets, nextChange>>

----------------------------------------------------------------------------
(* Bounds of the model *)

MaxZones == 2
MaxRecs == 2
MaxRuns == 2

----------------------------------------------------------------------------
(* Values *)

Running == -1
TTL == 300

Ip7 == "203.0.113.7"
Ip9 == "203.0.113.9"
IPs == {Ip7, Ip9}

ArgSet == {<<"ex">>, <<"sub", ".", "ex">>}

\* main.go:89   domain := os.Args[1] + "."
Normalize(arg) == arg \o <<".">>

Apex == <<"ex", ".">>
Sub == <<"sub", ".", "ex", ".">>
ApexAu == <<"ex", ".", "au", ".">>
ZoneNames == {Apex, Sub, ApexAu}

IsPrefix(p, s) == Len(p) <= Len(s) /\ SubSeq(s, 1, Len(p)) = p
IsSuffix(p, s) == Len(p) <= Len(s) /\ SubSeq(s, Len(s) - Len(p) + 1, Len(s)) = p

NilZone == [Name |-> <<>>, Id |-> 0]
NoParams == [HostedZoneId |-> 0, Changes |-> <<>>]
NoCalls == [ipify |-> 0, config |-> 0, listZones |-> 0, listRecs |-> 0, change |-> 0]
NoPrev == [domain |-> <<>>, ip |-> "", exit |-> Running]
NoRet == [fn |-> "", domain |-> <<>>, zoneId |-> 0, ip |-> "", zone |-> NilZone,
          val |-> "", err |-> "", callOk |-> TRUE]

SeqsUpTo(S, n) == UNION {[1..k -> S] : k \in 0..n}

\* The record sets a zone may hold at the start: a plain A record, a
\* multi-value A record with another TTL, an alias A record (no
\* ResourceRecords), a record of another type and one of another name.
RecordSets ==
    { [Name |-> Apex, Type |-> "A",  ResourceRecords |-> <<Ip7>>,      TTL |-> TTL],
      [Name |-> Apex, Type |-> "A",  ResourceRecords |-> <<Ip7, Ip9>>, TTL |-> 60],
      [Name |-> Apex, Type |-> "A",  ResourceRecords |-> <<>>,         TTL |-> 0],
      [Name |-> Apex, Type |-> "NS", ResourceRecords |-> <<"ns-1">>,   TTL |-> TTL],
      [Name |-> Sub,  Type |-> "A",  ResourceRecords |-> <<Ip9>>,      TTL |-> TTL] }

ZoneListings ==
    { [i \in 1..Len(ns) |-> [Name |-> ns[i], Id |-> i]] : ns \in SeqsUpTo(ZoneNames, MaxZones) }

\* a listing never holds the same record set twice
RecListings ==
    {l \in SeqsUpTo(RecordSets, MaxRecs) :
        \A i, j \in 1..Len(l) : i # j => l[i] # l[j]}

----------------------------------------------------------------------------
(* The three functions of main.go *)

RECURSIVE ScanZonesPrefix(_, _, _)
ScanZonesPrefix(res, i, d) ==
    IF i > Len(res) THEN [zone |-> NilZone, err |-> "Can't match domain to zone"]
    ELSE IF IsPrefix(d, res[i].Name) THEN [zone |-> res[i], err |-> "nil"]
    ELSE ScanZonesPrefix(res, i + 1, d)

\* main.go:29-34   the loop over res.HostedZones
RECURSIVE ScanZones(_, _, _)
ScanZones(res, i, d) ==
    IF i > Len(res) THEN [zone |-> NilZone, err |-> "Can't match domain to zone"]
    ELSE IF res[i].Name = d THEN [zone |-> res[i], err |-> "nil"]
    ELSE ScanZones(res, i + 1, d)

\* main.go:19-35   callOk: whether client.ListHostedZonesByName succeeded,
\* res: the listing it returned
GetHostedZone(res, callOk, d) ==
    IF ~callOk THEN [zone |-> NilZone, err |-> "Failed to get hosted zones"]
    ELSE ScanZones(res, 1, d)

RECURSIVE ScanRecsAnyType(_, _, _)
ScanRecsAnyType(recs, i, d) ==
    IF i > Len(recs) THEN [val |-> "", err |-> "Could not find A rec for top level name"]
    ELSE IF recs[i].Name = d
         THEN IF Len(recs[i].ResourceRecords) = 0
              THEN [val |-> "", err |-> "panic: index out of range"]
              ELSE [val |-> recs[i].ResourceRecords[1], err |-> "nil"]
         ELSE ScanRecsAnyType(recs, i + 1, d)

\* main.go:50-55   the loop over recs.ResourceRecordSets; indexing
\* ResourceRecords[0] of an empty slice is a run-time panic
RECURSIVE ScanRecs(_, _, _)
ScanRecs(recs, i, d) ==
    IF i > Len(recs) THEN [val |-> "", err |-> "Could not find A rec for top level name"]
    ELSE IF recs[i].Name = d /\ recs[i].Type = "A"
         THEN IF Len(recs[i].ResourceRecords) = 0
              THEN [val |-> "", err |-> "panic: index out of range"]
              ELSE [val |-> recs[i].ResourceRecords[1], err |-> "nil"]
         ELSE ScanRecs(recs, i + 1, d)

\* main.go:40-56
GetARecIp(recs, callOk, d) ==
    IF ~callOk THEN [val |-> "", err |-> "ListResourceRecordSets failed"]
    ELSE ScanRecs(recs, 1, d)

UpdateIpParamsTTL(z, d, addr) ==
    [HostedZoneId |-> z,
     Changes |-> << [Action |-> "UPSERT",
                     ResourceRecordSet |->
                         [Name |-> d, Type |-> "A",
                          ResourceRecords |-> <<addr>>, TTL |-> 3600]] >>]

UpdateIpParamsType(z, d, addr) ==
    [HostedZoneId |-> z,
     Changes |-> << [Action |-> "UPSERT",
                     ResourceRecordSet |->
                         [Name |-> d, Type |-> "AAAA",
                          ResourceRecords |-> <<addr>>, TTL |-> TTL]] >>]

\* main.go:62-80   the change batch UpdateIp builds
UpdateIpParams(z, d, addr) ==
    [HostedZoneId |-> z,
     Changes |-> << [Action |-> "UPSERT",
                     ResourceRecordSet |->
                         [Name |-> d, Type |-> "A",
                          ResourceRecords |-> <<addr>>, TTL |-> TTL]] >>]

----------------------------------------------------------------------------
(* The provider behind client.ChangeResourceRecordSets (main.go:82) *)

Matches(recs, rs) == {i \in 1..Len(recs) : recs[i].Name = rs.Name /\ recs[i].Type = rs.Type}

\* UPSERT: the record set with that name and type is replaced by the one in
\* the request, or created when there is none.
Upsert(recs, rs) ==
    IF Matches(recs, rs) = {} THEN Append(recs, rs)
    ELSE [i \in 1..Len(recs) |-> IF i \in Matches(recs, rs) THEN rs ELSE recs[i]]

\* A batch is accepted when the call goes through, the zone exists and the
\* request (which carries no set identifier) addresses at most one record set.
Accepted(rr, p, callOk) ==
    /\ callOk
    /\ p.HostedZoneId \in DOMAIN rr
    /\ \A c \in 1..Len(p.Changes) :
           Cardinality(Matches(rr[p.HostedZoneId], p.Changes[c].ResourceRecordSet)) <= 1

RECURSIVE ApplyChanges(_, _, _)
ApplyChanges(recs, changes, c) ==
    IF c > Len(changes) THEN recs
    ELSE ApplyChanges(Upsert(recs, changes[c].ResourceRecordSet), changes, c + 1)

ChangeResourceRecordSets(rr, p, callOk) ==
    IF Accepted(rr, p, callOk)
    THEN [rr EXCEPT ![p.HostedZoneId] = ApplyChanges(rr[p.HostedZoneId], p.Changes, 1)]
    ELSE rr

\* main.go:61-84   UpdateIp: the request it sends, the provider state after
\* the call, and what it returns (the change id, the error)
UpdateIp(rr, next, z, d, addr, callOk) ==
    LET p == UpdateIpParams(z, d, addr) IN
      [params |-> p,
       rr |-> ChangeResourceRecordSets(rr, p, callOk),
       changeId |-> IF Accepted(rr, p, callOk) THEN next ELSE 0,
       err |-> IF Accepted(rr, p, callOk) THEN "nil" ELSE "ChangeResourceRecordSets failed"]

----------------------------------------------------------------------------
(* main *)

Terminal == {"DONE", "FATAL", "PANIC"}

ProviderInit ==
    /\ zones \in ZoneListings
    /\ \E l \in RecListings : rrsets = [z \in 1..MaxZones |-> l]
    /\ nextChange = 1

LocalsInit ==
    /\ domain = <<>>
    /\ ip = ""
    /\ zone = NilZone
    /\ configuredIp = ""
    /\ exit = Running
    /\ calls = NoCalls
    /\ params = NoParams
    /\ out = <<>>
    /\ trace = <<>>
    /\ runs = 0
    /\ atStart = [rrsets |-> rrsets, nextChange |-> nextChange]
    /\ reported = 0
    /\ prev = NoPrev
    /\ ret = NoRet

Init == ProviderInit /\ LocalsInit /\ pc = "NOT_STARTED"

Fatal(step, msg) ==
    /\ pc' = "FATAL"
    /\ exit' = 1
    /\ out' = Append(out, msg)
    /\ trace' = Append(trace, step)

\* The process is started (again): main.go:86-89
Start ==
    /\ pc \in Terminal \cup {"NOT_STARTED"}
    /\ runs < MaxRuns
    /\ \E arg \in ArgSet : domain' = Normalize(arg)
    /\ runs' = runs + 1
    /\ prev' = IF pc = "NOT_STARTED" THEN NoPrev
               ELSE [domain |-> domain, ip |-> ip, exit |-> exit]
    /\ pc' = "RESOLVE_IP"
    /\ ip' = ""
    /\ zone' = NilZone
    /\ configuredIp' = ""
    /\ exit' = Running
    /\ calls' = NoCalls
    /\ params' = NoParams
    /\ out' = <<>>
    /\ trace' = <<>>
    /\ atStart' = [rrsets |-> rrsets, nextChange |-> nextChange]
    /\ reported' = 0
    /\ UNCHANGED <<provider, ret>>

\* main.go:93-97
ResolveIp ==
    /\ pc = "RESOLVE_IP"
    /\ calls' = [calls EXCEPT !.ipify = @ + 1]
    /\ \E callOk \in BOOLEAN, addr \in IPs :
         IF callOk
         THEN /\ ip' = addr
              /\ pc' = "LOAD_CONFIG"
              /\ out' = Append(out, "Current ip address")
              /\ trace' = Append(trace, "RESOLVE_IP")
              /\ UNCHANGED exit
         ELSE /\ Fatal("RESOLVE_IP", "Failed getting current ip")
              /\ UNCHANGED ip
    /\ UNCHANGED <<provider, domain, zone, configuredIp, params, runs, atStart, reported, prev, ret>>

\* main.go:101-105
LoadConfig ==
    /\ pc = "LOAD_CONFIG"
    /\ calls' = [calls EXCEPT !.config = @ + 1]
    /\ \E callOk \in BOOLEAN :
         IF callOk
         THEN /\ pc' = "LOCATE_ZONE"
              /\ trace' = Append(trace, "LOAD_CONFIG")
              /\ UNCHANGED <<exit, out>>
         ELSE Fatal("LOAD_CONFIG", "Unable to load AWS config")
    /\ UNCHANGED <<provider, domain, ip, zone, configuredIp, params, runs, atStart, reported, prev, ret>>

LocateZoneIgnoreErr ==
    /\ pc = "LOCATE_ZONE"
    /\ calls' = [calls EXCEPT !.listZones = @ + 1]
    /\ \E callOk \in BOOLEAN :
         LET r == GetHostedZone(zones, callOk, domain) IN
           /\ zone' = IF r.err = "nil" THEN r.zone ELSE [Name |-> domain, Id |-> 1]
           /\ pc' = "READ_RECORD"
           /\ out' = Append(out, "Found zone")
           /\ trace' = Append(trace, "LOCATE_ZONE")
           /\ UNCHANGED exit
    /\ UNCHANGED <<provider, domain, ip, configuredIp, params, runs, atStart, reported, prev, ret>>

\* main.go:108-112
LocateZone ==
    /\ pc = "LOCATE_ZONE"
    /\ calls' = [calls EXCEPT !.listZones = @ + 1]
    /\ \E callOk \in BOOLEAN :
         LET r == GetHostedZone(zones, callOk, domain) IN
           IF r.err = "nil"
           THEN /\ zone' = r.zone
                /\ pc' = "READ_RECORD"
                /\ out' = Append(out, "Found zone")
                /\ trace' = Append(trace, "LOCATE_ZONE")
                /\ UNCHANGED exit
           ELSE /\ Fatal("LOCATE_ZONE", "Failed to find zone")
                /\ UNCHANGED zone
    /\ UNCHANGED <<provider, domain, ip, configuredIp, params, runs, atStart, reported, prev, ret>>

ReadRecordRetry ==
    /\ pc = "READ_RECORD"
    /\ calls' = [calls EXCEPT !.listRecs = @ + 1]
    /\ \E callOk \in BOOLEAN :
         LET r == GetARecIp(rrsets[zone.Id], callOk, domain) IN
           IF r.err = "nil"
           THEN /\ configuredIp' = r.val
                /\ pc' = "COMPARE"
                /\ out' = Append(out, "Address in route53 is")
                /\ trace' = Append(trace, "READ_RECORD")
                /\ UNCHANGED exit
           ELSE IF calls.listRecs = 0
           THEN UNCHANGED <<pc, exit, out, trace, configuredIp>>
           ELSE /\ Fatal("READ_RECORD", "Error trying to check configured ip")
                /\ UNCHANGED configuredIp
    /\ UNCHANGED <<provider, domain, ip, zone, params, runs, atStart, reported, prev, ret>>

\* main.go:115-119
ReadRecord ==
    /\ pc = "READ_RECORD"
    /\ calls' = [calls EXCEPT !.listRecs = @ + 1]
    /\ \E callOk \in BOOLEAN :
         LET r == GetARecIp(rrsets[zone.Id], callOk, domain) IN
           IF r.err = "nil"
           THEN /\ configuredIp' = r.val
                /\ pc' = "COMPARE"
                /\ out' = Append(out, "Address in route53 is")
                /\ trace' = Append(trace, "READ_RECORD")
                /\ UNCHANGED exit
           ELSE IF r.err = "panic: index out of range"
           THEN /\ pc' = "PANIC"
                /\ exit' = 2
                /\ out' = Append(out, r.err)
                /\ trace' = Append(trace, "READ_RECORD")
                /\ UNCHANGED configuredIp
           ELSE /\ Fatal("READ_RECORD", "Error trying to check configured ip")
                /\ UNCHANGED configuredIp
    /\ UNCHANGED <<provider, domain, ip, zone, params, runs, atStart, reported, prev, ret>>

CompareAlwaysWrite ==
    /\ pc = "COMPARE"
    /\ trace' = Append(trace, "COMPARE")
    /\ pc' = "WRITE_RECORD"
    /\ UNCHANGED <<exit, out>>
    /\ UNCHANGED <<provider, domain, ip, zone, configuredIp, calls, params, runs,
                   atStart, reported, prev, ret>>

\* main.go:122-125
Compare ==
    /\ pc = "COMPARE"
    /\ trace' = Append(trace, "COMPARE")
    /\ IF ip = configuredIp
       THEN /\ pc' = "DONE"
            /\ exit' = 0
            /\ out' = Append(out, "Address already up to date, done")
       ELSE /\ pc' = "WRITE_RECORD"
            /\ UNCHANGED <<exit, out>>
    /\ UNCHANGED <<provider, domain, ip, zone, configuredIp, calls, params, runs,
                   atStart, reported, prev, ret>>

WriteRecordIgnoreErr ==
    /\ pc = "WRITE_RECORD"
    /\ calls' = [calls EXCEPT !.change = @ + 1]
    /\ \E callOk \in BOOLEAN :
         LET r == UpdateIp(rrsets, nextChange, zone.Id, domain, ip, callOk) IN
           /\ params' = r.params
           /\ rrsets' = r.rr
           /\ nextChange' = IF r.err = "nil" THEN nextChange + 1 ELSE nextChange
           /\ pc' = "DONE"
           /\ exit' = 0
           /\ reported' = r.changeId
           /\ out' = Append(out, "Updated. Change")
           /\ trace' = Append(trace, "WRITE_RECORD")
    /\ UNCHANGED <<zones, domain, ip, zone, configuredIp, runs, atStart, prev, ret>>

WriteRecordStaleIp ==
    /\ pc = "WRITE_RECORD"
    /\ calls' = [calls EXCEPT !.change = @ + 1]
    /\ \E callOk \in BOOLEAN :
         LET r == UpdateIp(rrsets, nextChange, zone.Id, domain, configuredIp, callOk) IN
           /\ params' = r.params
           /\ rrsets' = r.rr
           /\ IF r.err = "nil"
              THEN /\ nextChange' = nextChange + 1
                   /\ pc' = "DONE"
                   /\ exit' = 0
                   /\ reported' = r.changeId
                   /\ out' = Append(out, "Updated. Change")
                   /\ trace' = Append(trace, "WRITE_RECORD")
              ELSE /\ Fatal("WRITE_RECORD", "Error trying to update record")
                   /\ UNCHANGED <<nextChange, reported>>
    /\ UNCHANGED <<zones, domain, ip, zone, configuredIp, runs, atStart, prev, ret>>

\* main.go:128-133
WriteRecord ==
    /\ pc = "WRITE_RECORD"
    /\ calls' = [calls EXCEPT !.change = @ + 1]
    /\ \E callOk \in BOOLEAN :
         LET r == UpdateIp(rrsets, nextChange, zone.Id, domain, ip, callOk) IN
           /\ params' = r.params
           /\ rrsets' = r.rr
           /\ IF r.err = "nil"
              THEN /\ nextChange' = nextChange + 1
                   /\ pc' = "DONE"
                   /\ exit' = 0
                   /\ reported' = r.changeId
                   /\ out' = Append(out, "Updated. Change")
                   /\ trace' = Append(trace, "WRITE_RECORD")
              ELSE /\ Fatal("WRITE_RECORD", "Error trying to update record")
                   /\ UNCHANGED <<nextChange, reported>>
    /\ UNCHANGED <<zones, domain, ip, zone, configuredIp, runs, atStart, prev, ret>>

Next ==
    \/ Start
    \/ ResolveIp
    \/ LoadConfig
    \/ LocateZone
    \/ ReadRecord
    \/ Compare
    \/ WriteRecord

Spec == Init /\ [][Next]_vars

----------------------------------------------------------------------------
(* The three functions called directly, once, on a provider state *)

FnDomains == ZoneNames \cup ArgSet

InitFn == ProviderInit /\ LocalsInit /\ pc = "UNIT"

UnitGetHostedZone ==
    /\ pc = "UNIT"
    /\ pc' = "RETURNED"
    /\ \E d \in FnDomains, callOk \in BOOLEAN :
         LET r == GetHostedZone(zones, callOk, d) IN
           ret' = [NoRet EXCEPT !.fn = "GetHostedZone", !.domain = d,
                                !.zone = r.zone, !.err = r.err, !.callOk = callOk]
    /\ UNCHANGED <<provider, params, domain, ip, zone, configuredIp, exit, calls, out,
                   trace, runs, atStart, reported, prev>>

UnitGetARecIp ==
    /\ pc = "UNIT"
    /\ pc' = "RETURNED"
    /\ \E z \in DOMAIN rrsets, d \in FnDomains, callOk \in BOOLEAN :
         LET r == GetARecIp(rrsets[z], callOk, d) IN
           ret' = [NoRet EXCEPT !.fn = "GetARecIp", !.zoneId = z, !.domain = d,
                                !.val = r.val, !.err = r.err, !.callOk = callOk]
    /\ UNCHANGED <<provider, params, domain, ip, zone, configuredIp, exit, calls, out,
                   trace, runs, atStart, reported, prev>>

UnitUpdateIp ==
    /\ pc = "UNIT"
    /\ pc' = "RETURNED"
    /\ \E z \in DOMAIN rrsets, a \in ArgSet, addr \in IPs, callOk \in BOOLEAN :
         LET r == UpdateIp(rrsets, nextChange, z, Normalize(a), addr, callOk) IN
           /\ params' = r.params
           /\ rrsets' = r.rr
           /\ nextChange' = IF r.err = "nil" THEN nextChange + 1 ELSE nextChange
           /\ ret' = [NoRet EXCEPT !.fn = "UpdateIp", !.zoneId = z,
                                   !.domain = Normalize(a), !.ip = addr,
                                   !.err = r.err, !.callOk = callOk]
    /\ UNCHANGED <<zones, domain, ip, zone, configuredIp, exit, calls, out,
                   trace, runs, atStart, reported, prev>>

NextFn ==
    \/ UnitGetHostedZone
    \/ UnitGetARecIp
    \/ UnitUpdateIp

SpecFn == InitFn /\ [][NextFn]_vars

----------------------------------------------------------------------------
(* Vocabulary of the properties *)

Range(f) == {f[i] : i \in DOMAIN f}
Min(S) == CHOOSE x \in S : \A y \in S : x <= y
Last(q) == q[Len(q)]

\* positions of the A records named d in a listing
AIdx(recs, d) == {i \in 1..Len(recs) : recs[i].Name = d /\ recs[i].Type = "A"}
\* positions of the zones named d in a zone listing
ZIdx(zs, d) == {i \in 1..Len(zs) : zs[i].Name = d}

StepOrder == <<"RESOLVE_IP", "LOAD_CONFIG", "LOCATE_ZONE", "READ_RECORD", "COMPARE",
               "WRITE_RECORD">>

\* GetARecIp has returned a value to main in this run
ReadReturned == pc \in {"COMPARE", "WRITE_RECORD"} \/ "COMPARE" \in Range(trace)

\* GetHostedZone has returned a zone to main in this run
ZoneLocated == zone \in Range(zones) /\ zone.Name = domain

----------------------------------------------------------------------------
(* Properties of a run of main (Spec) *)

\* C1: whenever a run ends with success status, the first A record named
\* like the normalized domain in the located zone has the public IP resolved
\* in that run as its first value.
C1_SuccessMeansRecordMatches ==
    pc = "DONE" =>
        /\ exit = 0
        /\ ip \in IPs
        /\ \E arg \in ArgSet : domain = arg \o <<".">>
        /\ ZoneLocated
        /\ AIdx(rrsets[zone.Id], domain) # {}
        /\ LET rec == rrsets[zone.Id][Min(AIdx(rrsets[zone.Id], domain))] IN
             /\ Len(rec.ResourceRecords) >= 1
             /\ rec.ResourceRecords[1] = ip

\* A run that ended "Updated" after replacing another address.
C1_Witness ==
    /\ pc = "DONE"
    /\ calls.change = 1
    /\ rrsets # atStart.rrsets
    /\ rrsets[zone.Id][Min(AIdx(rrsets[zone.Id], domain))].ResourceRecords = <<ip>>

\* C2: if the resolved public IP equals the value the record reader
\* returned, no write call is made, the provider's records stay as they were
\* and the run ends with success status.
C2_EqualMeansNoWrite ==
    (ReadReturned /\ ip = configuredIp) =>
        /\ calls.change = 0
        /\ params = NoParams
        /\ rrsets = atStart.rrsets
        /\ nextChange = atStart.nextChange
        /\ pc \in {"COMPARE", "DONE"}
        /\ pc = "DONE" => exit = 0 /\ Last(out) = "Address already up to date, done"

C2_Witness ==
    /\ pc = "DONE"
    /\ "COMPARE" \in Range(trace)
    /\ ip = configuredIp
    /\ calls.listRecs = 1
    /\ calls.change = 0

\* C3: if the resolved public IP differs from the value read, exactly one
\* upsert call is issued: one change, action UPSERT, name = the normalized
\* domain, type A, the single value = the resolved IP, TTL 300, against the
\* zone id the locator returned; if it succeeds the run ends with success
\* status and reports the provider's change id.
C3_DifferentMeansOneUpsert ==
    (ReadReturned /\ ip # configuredIp) =>
        /\ pc \in {"COMPARE", "WRITE_RECORD"} => calls.change = 0 /\ params = NoParams
        /\ pc \in Terminal =>
             /\ calls.change = 1
             /\ ZoneLocated
             /\ params.HostedZoneId = zone.Id
             /\ Len(params.Changes) = 1
             /\ params.Changes[1].Action = "UPSERT"
             /\ params.Changes[1].ResourceRecordSet =
                    [Name |-> domain, Type |-> "A", ResourceRecords |-> <<ip>>, TTL |-> 300]
             /\ pc \in {"DONE", "FATAL"}
             /\ nextChange # atStart.nextChange =>
                    /\ pc = "DONE"
                    /\ exit = 0
                    /\ reported = atStart.nextChange
                    /\ Last(out) = "Updated. Change"
             /\ nextChange = atStart.nextChange => pc = "FATAL" /\ rrsets = atStart.rrsets

C3_Witness ==
    /\ pc = "DONE"
    /\ ip # configuredIp
    /\ configuredIp \in IPs
    /\ reported = atStart.nextChange
    /\ params.Changes[1].ResourceRecordSet.ResourceRecords = <<ip>>

\* C4: a failure in any step is terminal: the run halts with a non-zero
\* status at the failing step and no later step executes; no write call is
\* issued in a run in which IP resolution, config load, zone lookup or record
\* read failed, and no provider call at all when IP resolution failed.
C4_FailureIsTerminal ==
    /\ pc \in {"FATAL", "PANIC"} =>
         /\ exit \notin {Running, 0}
         /\ trace = SubSeq(StepOrder, 1, Len(trace))
         /\ Last(trace) # "WRITE_RECORD" =>
                calls.change = 0 /\ params = NoParams /\ rrsets = atStart.rrsets
         /\ Last(trace) = "RESOLVE_IP" =>
                calls = [NoCalls EXCEPT !.ipify = 1]
         /\ Last(trace) = "LOAD_CONFIG" =>
                calls = [NoCalls EXCEPT !.ipify = 1, !.config = 1]
         /\ Last(trace) = "LOCATE_ZONE" =>
                calls = [NoCalls EXCEPT !.ipify = 1, !.config = 1, !.listZones = 1]
         /\ Last(trace) = "READ_RECORD" =>
                calls = [NoCalls EXCEPT !.ipify = 1, !.config = 1, !.listZones = 1,
                                        !.listRecs = 1]
    \* a step that ran had everything before it succeed
    /\ calls.config + calls.listZones + calls.listRecs + calls.change > 0 => ip \in IPs
    /\ calls.listRecs + calls.change > 0 => ZoneLocated
    /\ calls.change > 0 => ReadReturned

C4_Witness ==
    /\ pc = "FATAL"
    /\ Last(trace) = "READ_RECORD"
    /\ Last(out) = "Error trying to check configured ip"
    /\ exit = 1

\* C7: of two consecutive runs on the same domain that resolve the same
\* public IP, the first having ended with success status, the second issues
\* no write call and leaves the provider's records unchanged.
C7_SecondRunIsNoOp ==
    (prev.exit = 0 /\ prev.domain = domain /\ prev.ip = ip) =>
        /\ calls.change = 0
        /\ params = NoParams
        /\ rrsets = atStart.rrsets
        /\ nextChange = atStart.nextChange
        /\ pc \in Terminal => pc = "DONE" \/ (pc = "FATAL" /\ Last(trace) # "WRITE_RECORD")

C7_Witness ==
    /\ prev.exit = 0
    /\ prev.domain = domain
    /\ prev.ip = ip
    /\ pc = "DONE"
    /\ atStart.nextChange = 2

\* the moves of pc within one run
C9_StepOrder ==
    {<<"RESOLVE_IP", "LOAD_CONFIG">>, <<"RESOLVE_IP", "FATAL">>,
     <<"LOAD_CONFIG", "LOCATE_ZONE">>, <<"LOAD_CONFIG", "FATAL">>,
     <<"LOCATE_ZONE", "READ_RECORD">>, <<"LOCATE_ZONE", "FATAL">>,
     <<"READ_RECORD", "COMPARE">>, <<"READ_RECORD", "FATAL">>, <<"READ_RECORD", "PANIC">>,
     <<"COMPARE", "DONE">>, <<"COMPARE", "WRITE_RECORD">>,
     <<"WRITE_RECORD", "DONE">>, <<"WRITE_RECORD", "FATAL">>}

\* what holds of the steps executed and the calls made so far in a run
C9_State ==
    /\ trace = SubSeq(StepOrder, 1, Len(trace))
    /\ \A k \in DOMAIN calls : calls[k] <= 1
    /\ calls.change = 1 =>
         /\ calls.ipify = 1 /\ ip \in IPs
         /\ calls.listZones = 1 /\ ZoneLocated
         /\ calls.listRecs = 1 /\ ReadReturned /\ configuredIp # ""

\* a step either starts a new process or moves pc along the order
C9_Step ==
    \/ /\ pc \in Terminal \cup {"NOT_STARTED"}
       /\ pc' = "RESOLVE_IP"
       /\ runs' = runs + 1
       /\ calls' = NoCalls
    \/ /\ <<pc, pc'>> \in C9_StepOrder
       /\ runs' = runs
       /\ \A k \in DOMAIN calls : calls'[k] >= calls[k]

\* C9: the steps of a run occur in the fixed order RESOLVE_IP, LOAD_CONFIG,
\* LOCATE_ZONE, READ_RECORD, COMPARE, then DONE or WRITE_RECORD and DONE: a
\* step begins only after the previous one succeeded, no step is re-entered,
\* each external call is made at most once per run, and the upsert is only
\* preceded by a successful IP resolution, zone lookup and record read.
C9_FixedStepOrder == []C9_State /\ [][C9_Step]_vars

C9_Witness ==
    /\ pc = "DONE"
    /\ trace = StepOrder
    /\ calls = [ipify |-> 1, config |-> 1, listZones |-> 1, listRecs |-> 1, change |-> 1]

\* C10: GetARecIp ends by returning a value or an error for every listing,
\* also when the first A record named like the domain has no values (an
\* alias record): it does not index past the end of the list and the run
\* ends in a defined outcome (success, or a reported error with status 1).
C10_ReaderNeverIndexesPastEnd ==
    /\ pc \in Terminal => pc \in {"DONE", "FATAL"}
    /\ exit \in {Running, 0, 1}

----------------------------------------------------------------------------
(* Properties of the three functions (SpecFn) *)

\* C5: if the listing holds a zone whose Name equals D exactly,
\* GetHostedZone returns the first such zone in listing order; if none has
\* Name exactly D it fails with a not-found error, also when zones whose
\* names have D as a prefix or a suffix are listed.
C5_ExactZoneMatch ==
    (ret.fn = "GetHostedZone" /\ ret.callOk) =>
        IF ZIdx(zones, ret.domain) # {}
        THEN /\ ret.err = "nil"
             /\ ret.zone = zones[Min(ZIdx(zones, ret.domain))]
             /\ ret.zone.Name = ret.domain
             /\ ret.zone.Id = Min(ZIdx(zones, ret.domain))
        ELSE /\ ret.err = "Can't match domain to zone"
             /\ ret.zone = NilZone

\* not found although a zone with the domain as a proper prefix or suffix is listed
C5_Witness ==
    /\ ret.fn = "GetHostedZone"
    /\ ret.err = "Can't match domain to zone"
    /\ \E i \in 1..Len(zones) :
         /\ zones[i].Name # ret.domain
         /\ IsPrefix(ret.domain, zones[i].Name) \/ IsSuffix(ret.domain, zones[i].Name)

\* C6: GetARecIp returns the first value of the first record with Name = D
\* and type A, whatever further values it has and whatever records of
\* another name or type surround it; it fails with a not-found error when
\* there is no such record, and hands on the error of a failed provider call.
\* (The first such record holding no value at all is the case of C10.)
C6_FirstValueOfFirstARecord ==
    ret.fn = "GetARecIp" =>
        LET recs == rrsets[ret.zoneId]
            idx == AIdx(recs, ret.domain) IN
          /\ ~ret.callOk => ret.err = "ListResourceRecordSets failed" /\ ret.val = ""
          /\ (ret.callOk /\ idx = {}) =>
                 ret.err = "Could not find A rec for top level name" /\ ret.val = ""
          /\ (ret.callOk /\ idx # {} /\ Len(recs[Min(idx)].ResourceRecords) >= 1) =>
                 ret.err = "nil" /\ ret.val = recs[Min(idx)].ResourceRecords[1]

\* the A record has two values and follows a record of the same name and another type
C6_Witness ==
    /\ ret.fn = "GetARecIp"
    /\ ret.err = "nil"
    /\ LET recs == rrsets[ret.zoneId] IN
         /\ Len(recs) = 2
         /\ recs[1].Name = ret.domain /\ recs[1].Type # "A"
         /\ Len(recs[2].ResourceRecords) = 2
         /\ ret.val = recs[2].ResourceRecords[1]

\* the value GetARecIp would read for d in listing recs is addr
CurrentValueIs(recs, d, addr) ==
    /\ AIdx(recs, d) # {}
    /\ Len(recs[Min(AIdx(recs, d))].ResourceRecords) >= 1
    /\ recs[Min(AIdx(recs, d))].ResourceRecords[1] = addr

\* C8: calling UpdateIp with a target IP equal to the current value of D's A
\* record leaves the record set for D (name, type, value list, TTL) the same
\* after the call as before it.
C8_UpsertOfSameValueIsNoOp ==
    (ret.fn = "UpdateIp" /\ CurrentValueIs(atStart.rrsets[ret.zoneId], ret.domain, ret.ip)) =>
        rrsets = atStart.rrsets

\* C8 as amended: such a call leaves every other record set, and the name,
\* type and first value of D's A record, the same; an accepted call sets the
\* value list to the single target IP and the TTL to 300, so the record set
\* is the same after the call exactly when it already held that one value
\* with TTL 300 (or the call was not accepted).
C8_UpsertOfSameValueKeepsFirstValue ==
    (ret.fn = "UpdateIp" /\ CurrentValueIs(atStart.rrsets[ret.zoneId], ret.domain, ret.ip)) =>
        LET before == atStart.rrsets[ret.zoneId]
            after == rrsets[ret.zoneId]
            i == Min(AIdx(before, ret.domain)) IN
          /\ \A z \in DOMAIN rrsets : z # ret.zoneId => rrsets[z] = atStart.rrsets[z]
          /\ Len(after) = Len(before)
          /\ \A j \in 1..Len(before) : j # i => after[j] = before[j]
          /\ after[i].Name = ret.domain
          /\ after[i].Type = "A"
          /\ after[i].ResourceRecords[1] = ret.ip
          /\ ret.err = "nil" => after[i].ResourceRecords = <<ret.ip>> /\ after[i].TTL = 300
          /\ ret.err # "nil" => after = before
          /\ (before[i].ResourceRecords = <<ret.ip>> /\ before[i].TTL = 300) => after = before

\* an accepted upsert of the current value onto a two-value record with TTL 60
C8_Witness ==
    /\ ret.fn = "UpdateIp"
    /\ ret.err = "nil"
    /\ CurrentValueIs(atStart.rrsets[ret.zoneId], ret.domain, ret.ip)
    /\ rrsets # atStart.rrsets

====
